---- MODULE Spec2Model ----
(***************************************************************************)
(* A model of the edge-detection pipeline of src/src/edge_detection.py and *)
(* of the OCR text cleaner of src/utils/OCR_utils.py.                      *)
(*                                                                         *)
(* Three specifications share the variables below:                         *)
(*   Spec     one run of main(): draw_ROI, crop_image, greyscale_and_blur, *)
(*            find_thresholds, perform_canny_edge_detection,               *)
(*            draw_contours, perform_OCR, over a small file system;        *)
(*   SpecThr  find_thresholds as a pure function of (median, sigma);       *)
(*   SpecText ocr.replace applied once and twice to bounded strings.       *)
(***************************************************************************)
EXTENDS Integers, Sequences, FiniteSets, TLC

VARIABLES
    pc,               \* position of main() / of the function under study
    args,             \* the parsed command line (lines 88-92)
    env,              \* what the run finds around it: data file, tesseract, OCR result
    dirs,             \* the directories that exist (absolute paths)
    files,            \* the files written so far: absolute path -> content
    heap,             \* numpy buffers: buffer id -> [rows, cols, px]
    image,            \* main's local `image` (a view on a buffer), or None
    top_left,         \* main's local `top_left`  (x, y)
    bottom_right,     \* main's local `bottom_right` (x, y)
    image_cropped,    \* main's local `image_cropped` (a view), or None
    greyscale_image,  \* main's local `greyscale_image` (a view), or None
    blurred_image,    \* main's local `blurred_image` (a view), or None
    v,                \* find_thresholds' local `v`, in half units (2 * median)
    sigma_value,      \* find_thresholds' parameter, in units of 1/SigmaDen
    lower_threshold,  \* find_thresholds' first result
    upper_threshold,  \* find_thresholds' second result
    canny_input,      \* the buffer perform_canny_edge_detection ran Canny on
    edged_image,      \* main's local `edged_image` (a view), or None
    string,           \* ocr.replace's parameter
    processed,        \* ocr.replace's result on `string`
    processed_twice   \* ocr.replace's result on `processed`

vars == <<pc, args, env, dirs, files, heap, image, top_left, bottom_right,
          image_cropped, greyscale_image, blurred_image, v, sigma_value,
          lower_threshold, upper_threshold, canny_input, edged_image,
          string, processed, processed_twice>>

None == "None"

(***************************************************************************)
(* Bounds of the model.                                                    *)
(***************************************************************************)
\* sigma values are k / 2^SigmaBits: binary fractions, which a float holds exactly
SigmaBits == 2
\* sigma ranges over [-SigmaMax, SigmaMax]
SigmaMax == 2
\* longest string handed to ocr.replace
MaxLen == 4

\* the largest 8-bit intensity, the clamp of the upper threshold
MaxIntensity == 255

RECURSIVE Pow2(_)
Pow2(n) == IF n = 0 THEN 1 ELSE 2 * Pow2(n - 1)

SigmaDen == Pow2(SigmaBits)
SigmaNums == (-(SigmaMax * SigmaDen))..(SigmaMax * SigmaDen)
\* twice the median of 8-bit values: an integer or a half-integer in [0, 255]
Medians2 == 0..(2 * MaxIntensity)

(***************************************************************************)
(* find_thresholds (lines 191-204).  The median is v2/2, sigma is sn/SigmaDen,*)
(* so (1 -+ sigma) * v = (SigmaDen -+ sn) * v2 / (2 * SigmaDen), exactly.   *)
(***************************************************************************)
\* Python's int() on a float: truncation toward zero; the float is n / d
int(n, d) == IF n >= 0 THEN n \div d ELSE -((-n) \div d)

\* a slip of sign in the lower threshold: (1.0 + sigma_value) * v
lower_threshold_plus(v2, sn) ==
    LET n == (SigmaDen + sn) * v2
    IN  IF n > 0 THEN int(n, 2 * SigmaDen) ELSE 0

\* lower_threshold = int(max(0, (1.0 - sigma_value) * v))
lower_threshold_of(v2, sn) ==
    LET n == (SigmaDen - sn) * v2
    IN  IF n > 0 THEN int(n, 2 * SigmaDen) ELSE 0

\* upper_threshold = int(min(255, (1.0 + sigma_value) * v))
upper_threshold_of(v2, sn) ==
    LET n == (SigmaDen + sn) * v2
    IN  IF n < MaxIntensity * 2 * SigmaDen THEN int(n, 2 * SigmaDen) ELSE MaxIntensity

\* sigma applied with the opposite sign, as the --sigma help text (line 74) has it:
\* a larger sigma then tightens the band
find_thresholds_tighter(v2, sn) ==
    <<lower_threshold_of(v2, -sn), upper_threshold_of(v2, -sn)>>

find_thresholds(v2, sn) ==
    <<lower_threshold_of(v2, sn), upper_threshold_of(v2, sn)>>

(***************************************************************************)
(* ocr.replace (src/utils/OCR_utils.py, lines 6-20).  A string is a        *)
(* sequence of one-character strings.                                      *)
(***************************************************************************)
NL == "\n"
BS == "\\"
Whitespace == {" ", NL, "\t"}
Alphabet == {"a", "s", " ", NL, "\t", "_", "-", "\"", "|", "!", BS}

\* the strings of at most MaxLen characters
Strings == UNION {[1..n -> Alphabet] : n \in 0..MaxLen}

StartsWithAt(s, i, old) ==
    /\ i + Len(old) - 1 <= Len(s)
    /\ \A k \in 1..Len(old) : s[i + k - 1] = old[k]

\* str.replace(old, new): every non-overlapping occurrence, left to right
RECURSIVE str_replace_from(_, _, _, _)
str_replace_from(s, i, old, new) ==
    IF i > Len(s) THEN <<>>
    ELSE IF StartsWithAt(s, i, old)
         THEN new \o str_replace_from(s, i + Len(old), old, new)
         ELSE <<s[i]>> \o str_replace_from(s, i + 1, old, new)

str_replace(s, old, new) == str_replace_from(s, 1, old, new)

\* str.lstrip(): drop the leading whitespace
RECURSIVE lstrip(_)
lstrip(s) ==
    IF s # <<>> /\ Head(s) \in Whitespace THEN lstrip(Tail(s)) ELSE s

\* str.split(): the maximal runs of non-whitespace characters
RECURSIVE split_from(_, _, _)
split_from(s, i, word) ==
    IF i > Len(s) THEN (IF word = <<>> THEN <<>> ELSE <<word>>)
    ELSE IF s[i] \in Whitespace
         THEN (IF word = <<>> THEN <<>> ELSE <<word>>) \o split_from(s, i + 1, <<>>)
         ELSE split_from(s, i + 1, Append(word, s[i]))

split(s) == split_from(s, 1, <<>>)

\* " ".join(words)
RECURSIVE join(_)
join(words) ==
    IF words = <<>> THEN <<>>
    ELSE IF Len(words) = 1 THEN words[1]
    ELSE words[1] \o <<" ">> \o join(Tail(words))

\* the chain of lines 10-18, in the order the code applies it
replace_chain(s) ==
    LET s1 == str_replace(s,  <<NL>>, <<" ">>)
        s2 == str_replace(s1, <<NL, NL>>, <<" ">>)
        s3 == str_replace(s2, <<"_", "_">>, <<" ">>)
        s4 == str_replace(s3, <<" ", "-", " ">>, <<" ">>)
        s5 == str_replace(s4, <<"-", "\"", "\"">>, <<" ">>)
        s6 == str_replace(s5, <<"|">>, <<>>)
        s7 == str_replace(s6, <<"!">>, <<>>)
        s8 == str_replace(s7, <<BS, "s">>, <<" ">>)
    IN  lstrip(s8)

replace(s) == join(split(replace_chain(s)))

(***************************************************************************)
(* Bounds of the pipeline model.                                           *)
(***************************************************************************)
\* the data image has Height rows and Width columns
Width == 3
Height == 2
\* the largest number of edge pixels the edge map of one run holds
MaxEdges == 1

(***************************************************************************)
(* Paths.  A path is a sequence of components; an absolute path starts     *)
(* with "/".                                                               *)
(***************************************************************************)
\* os.path.join(a, b): an absolute b discards a
os_path_join(a, b) == IF b # <<>> /\ b[1] = "/" THEN b ELSE a \o b

\* the directory a path names once the kernel has walked it from cwd
RECURSIVE Walk(_, _)
Walk(at, rest) ==
    IF rest = <<>> THEN at
    ELSE IF Head(rest) = ".." THEN
             Walk(IF Len(at) > 1 THEN SubSeq(at, 1, Len(at) - 1) ELSE at, Tail(rest))
    ELSE IF Head(rest) = "." THEN Walk(at, Tail(rest))
    ELSE Walk(Append(at, Head(rest)), Tail(rest))

Resolve(cwd, p) ==
    IF p # <<>> /\ p[1] = "/" THEN Walk(<<"/">>, Tail(p)) ELSE Walk(cwd, p)

Parent(abs) == IF Len(abs) > 1 THEN SubSeq(abs, 1, Len(abs) - 1) ELSE abs

\* the script is run from the repository's src/ directory (line 27, line 148)
Cwd == <<"/", "repo", "src">>

(***************************************************************************)
(* Arrays.  A buffer is [rows, cols, ch, px] with px a function of <<r, c>>*)
(* (0-based) giving a BGR triple (ch = 3) or an intensity (ch = 1); an     *)
(* image is a view [buf, r0, c0, rows, cols] on a buffer of the heap, as a *)
(* numpy slice is.                                                         *)
(***************************************************************************)
Positions(rows, cols) == (0..(rows - 1)) \X (0..(cols - 1))

WholeOf(h, b) == [buf |-> b, r0 |-> 0, c0 |-> 0, rows |-> h[b].rows, cols |-> h[b].cols]

ViewPx(h, img, r, c) == h[img.buf].px[<<img.r0 + r, img.c0 + c>>]

\* the array a view shows, as a value of its own
Content(h, img) ==
    [rows |-> img.rows, cols |-> img.cols, ch |-> h[img.buf].ch,
     px |-> [p \in Positions(img.rows, img.cols) |-> ViewPx(h, img, p[1], p[2])]]

IsEmpty(img) == img.rows = 0 \/ img.cols = 0

\* drawing on the array itself instead of on a copy of it
ndarray_no_copy(h, img, b) == [heap |-> h, img |-> img]

\* ndarray.copy(): a new buffer `b` holding what the view shows
ndarray_copy(h, img, b) ==
    [heap |-> (b :> Content(h, img)) @@ h,
     img  |-> [buf |-> b, r0 |-> 0, c0 |-> 0, rows |-> img.rows, cols |-> img.cols]]

\* the drawing primitives write `color` through the view into its buffer
Paint(h, img, where, color) ==
    LET b == h[img.buf]
        hit(p) == /\ p[1] - img.r0 \in 0..(img.rows - 1)
                  /\ p[2] - img.c0 \in 0..(img.cols - 1)
                  /\ <<p[1] - img.r0, p[2] - img.c0>> \in where
    IN  [h EXCEPT ![img.buf] =
            [b EXCEPT !.px = [p \in DOMAIN b.px |-> IF hit(p) THEN color ELSE b.px[p]]]]

Green == <<0, 255, 0>>

Min(a, b) == IF a < b THEN a ELSE b
Max(a, b) == IF a > b THEN a ELSE b

\* cv2.rectangle(img, pt1, pt2, color, 2): the outline of the rectangle spanned by
\* the two corners, stroked 2 px wide (the outline and the pixels touching it),
\* clipped to the image.  Points are (x, y).
RectangleStroke(img, pt1, pt2) ==
    LET xa == Min(pt1[1], pt2[1])
        xb == Max(pt1[1], pt2[1])
        ya == Min(pt1[2], pt2[2])
        yb == Max(pt1[2], pt2[2])
        onOutline(r, c) ==
            /\ r \in ya..yb
            /\ c \in xa..xb
            /\ (r = ya \/ r = yb \/ c = xa \/ c = xb)
    IN  {p \in Positions(img.rows, img.cols) :
            \E r \in (p[1] - 1)..(p[1] + 1), c \in (p[2] - 1)..(p[2] + 1) : onOutline(r, c)}

cv2_rectangle(h, img, pt1, pt2, color) ==
    Paint(h, img, RectangleStroke(img, pt1, pt2), color)

\* Python's slice start:stop on an axis of length n: negative indices count from
\* the end, everything is clamped to 0..n
SliceIndex(i, n) == IF i < 0 THEN Max(i + n, 0) ELSE Min(i, n)

Slice(img, rstart, rstop, cstart, cstop) ==
    LET ra == SliceIndex(rstart, img.rows)
        rb == SliceIndex(rstop, img.rows)
        ca == SliceIndex(cstart, img.cols)
        cb == SliceIndex(cstop, img.cols)
    IN  [buf |-> img.buf, r0 |-> img.r0 + ra, c0 |-> img.c0 + ca,
         rows |-> Max(rb - ra, 0), cols |-> Max(cb - ca, 0)]

(***************************************************************************)
(* int() on a command-line token (lines 151, 154).                         *)
(***************************************************************************)
Digits == <<"0", "1", "2", "3", "4", "5", "6", "7", "8", "9">>
IsDigit(ch) == \E d \in 1..10 : Digits[d] = ch
DigitVal(ch) == (CHOOSE d \in 1..10 : Digits[d] = ch) - 1

RECURSIVE DigitsVal(_, _)
DigitsVal(tok, acc) ==
    IF tok = <<>> THEN acc ELSE DigitsVal(Tail(tok), 10 * acc + DigitVal(Head(tok)))

\* int(token): [ok, val]; ok is FALSE where Python raises ValueError
int_of_str(tok) ==
    LET body == IF tok # <<>> /\ Head(tok) \in {"-", "+"} THEN Tail(tok) ELSE tok
        neg  == tok # <<>> /\ Head(tok) = "-"
    IN  IF body = <<>> \/ \E k \in 1..Len(body) : ~IsDigit(body[k])
        THEN [ok |-> FALSE, val |-> 0]
        ELSE [ok |-> TRUE, val |-> IF neg THEN -DigitsVal(body, 0) ELSE DigitsVal(body, 0)]

\* the decimal token of an integer, as the user types it
RECURSIVE NatToken(_)
NatToken(n) == IF n < 10 THEN <<Digits[n + 1]>> ELSE Append(NatToken(n \div 10), Digits[(n % 10) + 1])
IntToken(n) == IF n < 0 THEN <<"-">> \o NatToken(-n) ELSE NatToken(n)

(***************************************************************************)
(* The library operations the stages call.                                 *)
(***************************************************************************)
\* cv2.cvtColor(img, COLOR_BGR2GRAY): 0.114 B + 0.587 G + 0.299 R, rounded
cv2_cvtColor_BGR2GRAY(h, img) ==
    [rows |-> img.rows, cols |-> img.cols, ch |-> 1,
     px |-> [p \in Positions(img.rows, img.cols) |->
                LET bgr == ViewPx(h, img, p[1], p[2])
                IN  (114 * bgr[1] + 587 * bgr[2] + 299 * bgr[3] + 500) \div 1000]]

\* BORDER_REFLECT_101, the default border of cv2.GaussianBlur
Reflect101(i, n) ==
    IF n = 1 THEN 0
    ELSE IF i < 0 THEN -i
    ELSE IF i >= n THEN 2 * (n - 1) - i
    ELSE i

\* cv2.GaussianBlur(img, (3,3), 0): the kernel [1 2 1]/4 along both axes, rounded
cv2_GaussianBlur_3x3(h, img) ==
    LET w(d) == IF d = 0 THEN 2 ELSE 1
        at(r, c) == ViewPx(h, img, Reflect101(r, img.rows), Reflect101(c, img.cols))
        sum(r, c) ==
            LET row(dr) == w(dr) * (at(r + dr, c - 1) + 2 * at(r + dr, c) + at(r + dr, c + 1))
            IN  row(-1) + row(0) + row(1)
    IN  [rows |-> img.rows, cols |-> img.cols, ch |-> 1,
         px |-> [p \in Positions(img.rows, img.cols) |-> (sum(p[1], p[2]) + 8) \div 16]]

\* np.median over every value of the array, times two: with the values sorted,
\* a[(n-1) div 2] + a[n div 2] (the middle value twice, or the two middle values)
np_median2(h, img) ==
    LET chs == h[img.buf].ch
        Idx == Positions(img.rows, img.cols) \X (1..chs)
        val(i) == IF chs = 1 THEN ViewPx(h, img, i[1][1], i[1][2])
                  ELSE ViewPx(h, img, i[1][1], i[1][2])[i[2]]
        n == Cardinality(Idx)
        kth(k) == CHOOSE x \in {val(i) : i \in Idx} :
                      /\ Cardinality({i \in Idx : val(i) < x}) <= k
                      /\ k < Cardinality({i \in Idx : val(i) <= x})
    IN  kth((n - 1) \div 2) + kth(n \div 2)

\* cv2.Canny(img, lower, upper) returns a binary edge map of the shape of img.
\* The detector itself is the library's: the model lets it return any map with at
\* most MaxEdges edge pixels, and no edge at all on an image of one intensity
\* (every gradient is zero there).
CannyEdgeSets(h, img) ==
    LET P == Positions(img.rows, img.cols)
    IN  IF \A p, q \in P : ViewPx(h, img, p[1], p[2]) = ViewPx(h, img, q[1], q[2])
        THEN {{}}
        ELSE {E \in SUBSET P : Cardinality(E) <= MaxEdges}

EdgeMap(img, E) ==
    [rows |-> img.rows, cols |-> img.cols, ch |-> 1,
     px |-> [p \in Positions(img.rows, img.cols) |-> IF p \in E THEN 255 ELSE 0]]

\* cv2.findContours(RETR_EXTERNAL) + cv2.drawContours(img, contours, -1, color, 2):
\* the contours run along the edge pixels; stroked 2 px wide they cover the edge
\* pixels and the pixels touching them
ContourStroke(h, edged) ==
    {p \in Positions(edged.rows, edged.cols) :
        \E r \in (p[1] - 1)..(p[1] + 1), c \in (p[2] - 1)..(p[2] + 1) :
            /\ <<r, c>> \in Positions(edged.rows, edged.cols)
            /\ ViewPx(h, edged, r, c) # 0}

\* cv2.threshold(img, 110, 255, THRESH_BINARY)
cv2_threshold_binary(h, img) ==
    [rows |-> img.rows, cols |-> img.cols, ch |-> 1,
     px |-> [p \in Positions(img.rows, img.cols) |->
                IF ViewPx(h, img, p[1], p[2]) > 110 THEN 255 ELSE 0]]

(***************************************************************************)
(* The file system.                                                        *)
(***************************************************************************)
FileKey(dir, name) == [dir |-> dir, name |-> name]

\* f"{self.input_image}<suffix>"
OutputName(input_image, suffix) == <<input_image, suffix>>

\* cv2.imwrite(os.path.join(dir, name), img) on a non-empty img: the file is
\* written when its directory exists; otherwise imwrite returns False and writes
\* nothing
cv2_imwrite(fs, ds, dir, name, content) ==
    IF Resolve(Cwd, dir) \in ds
    THEN (FileKey(Resolve(Cwd, dir), name) :> content) @@ fs
    ELSE fs

(***************************************************************************)
(* The inputs of a run.                                                    *)
(***************************************************************************)
GradientImage(base) ==
    [rows |-> Height, cols |-> Width, ch |-> 3,
     px |-> [p \in Positions(Height, Width) |->
                <<Min(MaxIntensity, base + 10 * p[1] + p[2]),
                  Min(MaxIntensity, base + 20 * p[2]),
                  base>>]]

UniformImage(base) ==
    [rows |-> Height, cols |-> Width, ch |-> 3,
     px |-> [p \in Positions(Height, Width) |-> <<base, base, base>>]]

\* what cv2.imread finds in ../data: one of these images
DataImages == {GradientImage(0), GradientImage(120), UniformImage(200)}

\* ../data/<input_image>: there with an image in it, or missing (cv2.imread
\* then returns None)
DataFiles ==
    {[found |-> TRUE, data |-> d] : d \in DataImages} \cup {[found |-> FALSE, data |-> <<>>]}

\* --ROI_coordinates: four integers inside or on the border of the image, and a
\* few command lines outside that grid (negative and too large coordinates, a
\* token that is no integer, a missing coordinate)
GridROIs ==
    {<<IntToken(x1), IntToken(y1), IntToken(x2), IntToken(y2)>> :
        x1 \in 0..Width, y1 \in 0..Height, x2 \in 0..Width, y2 \in 0..Height}

OtherROIs ==
    {<<IntToken(-1), IntToken(-1), IntToken(Width + 1), IntToken(Height + 1)>>,
     <<IntToken(0), IntToken(0), <<"x">>, IntToken(1)>>,
     <<IntToken(0), IntToken(0), IntToken(1)>>}

ROIs == GridROIs \cup OtherROIs

OutputDirs == {<<"output">>, <<"/", "tmp", "out">>, <<"out", "sub">>}

\* --sigma, in units of 1/SigmaDen: 0.25 and 1.0
PipelineSigmas == {SigmaDen \div 4, SigmaDen}

OCRFlags == {"True", "False", "true", "TRUE", "1", ""}

\* what pytesseract.image_to_string may return
OCRTexts == {<<>>, <<"a", "|", "s">>, <<"a", NL, " ", "s">>}

ArgsSet ==
    [input_image : {"jefferson_memorial.jpeg"},
     ROI_coordinates : ROIs,
     output_dir : OutputDirs,
     sigma : PipelineSigmas,
     OCR : OCRFlags]

BaseDirs == {<<"/">>, <<"/", "repo">>, <<"/", "repo", "src">>,
             <<"/", "repo", "data">>, <<"/", "tmp">>}

\* the directories there before the run: nothing of an earlier run, an output/
\* beside the script, or that and the repository's output/ (these two only matter
\* to a run whose --output_dir is "output")
InitialDirs(output_dir) ==
    IF output_dir = <<"output">>
    THEN {BaseDirs,
          BaseDirs \cup {<<"/", "repo", "src", "output">>},
          BaseDirs \cup {<<"/", "repo", "src", "output">>, <<"/", "repo", "output">>}}
    ELSE {BaseDirs}

(***************************************************************************)
(* Where each stage writes.                                                *)
(***************************************************************************)
\* main, lines 95-96: os.path.join("..", output_dir)
main_output_dir(output_dir) == os_path_join(<<"..">>, output_dir)

\* draw_ROI, crop_image, draw_contours (lines 160, 173, 236):
\* os.path.join(self.output_dir, <name>)
image_output_dir(output_dir) == output_dir

\* perform_OCR, line 261: os.path.join("..", self.output_dir, <name>)
ocr_output_dir(output_dir) == os_path_join(<<"..">>, output_dir)

\* a flag parsed as a boolean instead of compared with "True"
OCR_requested_lenient(flag) == flag \in {"True", "true", "TRUE", "1"}

\* perform_OCR, line 244
OCR_requested(flag) == flag = "True"

\* the array the parameter of find_thresholds is named after
find_thresholds_argument_blurred == blurred_image

\* main, line 116: the array handed to find_thresholds
find_thresholds_argument == image

(***************************************************************************)
(* Spec: one run of main().                                                *)
(***************************************************************************)
Init ==
    /\ pc = "main"
    /\ args \in ArgsSet
    /\ env \in DataFiles
    /\ dirs \in InitialDirs(args.output_dir)
    /\ files = <<>>
    /\ heap = <<>>
    /\ image = None
    /\ top_left = None
    /\ bottom_right = None
    /\ image_cropped = None
    /\ greyscale_image = None
    /\ blurred_image = None
    /\ v = None
    /\ sigma_value = args.sigma
    /\ lower_threshold = None
    /\ upper_threshold = None
    /\ canny_input = None
    /\ edged_image = None
    /\ string = None
    /\ processed = None
    /\ processed_twice = None

\* main, lines 94-100: create the output directory if it does not exist
MakeOutputDir ==
    /\ pc = "main"
    /\ LET target == Resolve(Cwd, main_output_dir(args.output_dir))
       IN  IF target \in dirs
           THEN pc' = "draw_ROI" /\ dirs' = dirs
           ELSE IF Parent(target) \in dirs
           THEN pc' = "draw_ROI" /\ dirs' = dirs \cup {target}
           ELSE pc' = "crashed in main" /\ dirs' = dirs    \* os.mkdir: FileNotFoundError
    /\ UNCHANGED <<args, env, files, heap, image, top_left, bottom_right,
                   image_cropped, greyscale_image, blurred_image, v, sigma_value,
                   lower_threshold, upper_threshold, canny_input, edged_image,
                   string, processed, processed_twice>>

\* draw_ROI, lines 143-162
draw_ROI ==
    /\ pc = "draw_ROI"
    /\ LET R == args.ROI_coordinates
           wellFormed == /\ Len(R) >= 4
                         /\ \A k \in 1..4 : int_of_str(R[k]).ok
       IN  IF ~wellFormed \/ ~env.found
           THEN \* int(): IndexError, ValueError; image.copy() on None: AttributeError
                /\ pc' = "crashed in draw_ROI"
                /\ UNCHANGED <<files, heap, image, top_left, bottom_right>>
           ELSE LET h1  == (1 :> env.data)
                    img == WholeOf(h1, 1)
                    tl  == <<int_of_str(R[1]).val, int_of_str(R[2]).val>>
                    br  == <<int_of_str(R[3]).val, int_of_str(R[4]).val>>
                    cp  == ndarray_copy(h1, img, 2)
                    h2  == cv2_rectangle(cp.heap, cp.img, tl, br, Green)
                IN  /\ files' = cv2_imwrite(files, dirs, image_output_dir(args.output_dir),
                                            OutputName(args.input_image, "_with_ROI.jpg"),
                                            Content(h2, cp.img))
                    /\ heap' = [b \in {1} |-> h2[b]]    \* ROI_image is dropped on return
                    /\ image' = img
                    /\ top_left' = tl
                    /\ bottom_right' = br
                    /\ pc' = "crop_image"
    /\ UNCHANGED <<args, env, dirs, image_cropped, greyscale_image, blurred_image,
                   v, sigma_value, lower_threshold, upper_threshold, canny_input,
                   edged_image, string, processed, processed_twice>>

\* the two axes mixed up: image[x1:x2, y1:y2]
crop_slice_swapped(img, tl, br) == Slice(img, tl[1], br[1], tl[2], br[2])

\* image[top_left[1]:bottom_right[1], top_left[0]:bottom_right[0]] (line 170)
crop_slice(img, tl, br) == Slice(img, tl[2], br[2], tl[1], br[1])

\* crop_image, lines 165-175
crop_image ==
    /\ pc = "crop_image"
    /\ LET cropped == crop_slice(image, top_left, bottom_right)
       IN  IF IsEmpty(cropped)
           THEN \* cv2.imwrite refuses an empty array: cv2.error
                /\ pc' = "crashed in crop_image"
                /\ UNCHANGED <<files, image_cropped>>
           ELSE /\ files' = cv2_imwrite(files, dirs, image_output_dir(args.output_dir),
                                        OutputName(args.input_image, "_cropped.jpg"),
                                        Content(heap, cropped))
                /\ image_cropped' = cropped
                /\ pc' = "greyscale_and_blur"
    /\ UNCHANGED <<args, env, dirs, heap, image, top_left, bottom_right,
                   greyscale_image, blurred_image, v, sigma_value, lower_threshold,
                   upper_threshold, canny_input, edged_image, string, processed,
                   processed_twice>>

\* greyscale_and_blur, lines 178-188
greyscale_and_blur ==
    /\ pc = "greyscale_and_blur"
    /\ LET h3 == (3 :> cv2_cvtColor_BGR2GRAY(heap, image_cropped)) @@ heap
           g  == WholeOf(h3, 3)
           h4 == (4 :> cv2_GaussianBlur_3x3(h3, g)) @@ h3
       IN  /\ heap' = h4
           /\ greyscale_image' = g
           /\ blurred_image' = WholeOf(h4, 4)
    /\ pc' = "find_thresholds"
    /\ UNCHANGED <<args, env, dirs, files, image, top_left, bottom_right,
                   image_cropped, v, sigma_value, lower_threshold, upper_threshold,
                   canny_input, edged_image, string, processed, processed_twice>>

\* main, line 116, and find_thresholds, lines 191-204
FindThresholds ==
    /\ pc = "find_thresholds"
    /\ LET m2 == np_median2(heap, find_thresholds_argument)
           t  == find_thresholds(m2, sigma_value)
       IN  /\ v' = m2
           /\ lower_threshold' = t[1]
           /\ upper_threshold' = t[2]
    /\ pc' = "perform_canny_edge_detection"
    /\ UNCHANGED <<args, env, dirs, files, heap, image, top_left, bottom_right,
                   image_cropped, greyscale_image, blurred_image, sigma_value,
                   canny_input, edged_image, string, processed, processed_twice>>

\* main, line 120, and perform_canny_edge_detection, lines 207-216
perform_canny_edge_detection ==
    /\ pc = "perform_canny_edge_detection"
    /\ \E E \in CannyEdgeSets(heap, blurred_image) :
          LET h5 == (5 :> EdgeMap(blurred_image, E)) @@ heap
          IN  /\ heap' = h5
              /\ edged_image' = WholeOf(h5, 5)
    /\ canny_input' = [img |-> blurred_image,
                       lower |-> lower_threshold, upper |-> upper_threshold]
    /\ pc' = "draw_contours"
    /\ UNCHANGED <<args, env, dirs, files, image, top_left, bottom_right,
                   image_cropped, greyscale_image, blurred_image, v, sigma_value,
                   lower_threshold, upper_threshold, string, processed,
                   processed_twice>>

\* draw_contours, lines 219-236
draw_contours ==
    /\ pc = "draw_contours"
    /\ LET ec == ndarray_copy(heap, edged_image, 6)
           cc == ndarray_copy(ec.heap, image_cropped, 7)
           h7 == Paint(cc.heap, cc.img, ContourStroke(ec.heap, ec.img), Green)
       IN  /\ files' = cv2_imwrite(files, dirs, image_output_dir(args.output_dir),
                                   OutputName(args.input_image, "_letters.jpg"),
                                   Content(h7, cc.img))
           /\ heap' = [b \in DOMAIN heap |-> h7[b]]    \* the copies are dropped on return
    /\ pc' = "perform_OCR"
    /\ UNCHANGED <<args, env, dirs, image, top_left, bottom_right, image_cropped,
                   greyscale_image, blurred_image, v, sigma_value, lower_threshold,
                   upper_threshold, canny_input, edged_image, string, processed,
                   processed_twice>>

OCRHeader == "Below you can see the result of the OCR run on"

\* perform_OCR, lines 239-269
perform_OCR ==
    /\ pc = "perform_OCR"
    /\ IF OCR_requested(args.OCR)
       THEN \E installed \in BOOLEAN, text \in OCRTexts :
               IF ~installed
               THEN \* pytesseract.image_to_string: TesseractNotFoundError
                    /\ pc' = "crashed in perform_OCR"
                    /\ UNCHANGED <<files, string, processed>>
               ELSE LET dir == Resolve(Cwd, ocr_output_dir(args.output_dir))
                        binarized == cv2_threshold_binary(heap, greyscale_image)
                    IN  /\ string' = text
                        /\ processed' = replace(text)
                        /\ IF dir \in dirs
                           THEN /\ files' =
                                     (FileKey(dir, OutputName(args.input_image, "_OCR_text.txt"))
                                        :> [header |-> OCRHeader,
                                            of |-> args.input_image,
                                            of_image |-> binarized,
                                            text |-> replace(text)]) @@ files
                                /\ pc' = "done"
                           ELSE \* open(): FileNotFoundError
                                /\ files' = files
                                /\ pc' = "crashed in perform_OCR"
       ELSE /\ pc' = "done"
            /\ UNCHANGED <<files, string, processed>>
    /\ UNCHANGED <<args, env, dirs, heap, image, top_left, bottom_right,
                   image_cropped, greyscale_image, blurred_image, v, sigma_value,
                   lower_threshold, upper_threshold, canny_input, edged_image,
                   processed_twice>>

Next ==
    \/ MakeOutputDir
    \/ draw_ROI
    \/ crop_image
    \/ greyscale_and_blur
    \/ FindThresholds
    \/ perform_canny_edge_detection
    \/ draw_contours
    \/ perform_OCR

Spec == Init /\ [][Next]_vars

(***************************************************************************)
(* SpecThr: find_thresholds on every median and every sigma of the grid.   *)
(***************************************************************************)
InitThr ==
    /\ pc = "find_thresholds: called"
    /\ v \in Medians2
    /\ sigma_value \in SigmaNums
    /\ lower_threshold = None
    /\ upper_threshold = None
    /\ args = None
    /\ env = None
    /\ dirs = {}
    /\ files = <<>>
    /\ heap = <<>>
    /\ image = None
    /\ top_left = None
    /\ bottom_right = None
    /\ image_cropped = None
    /\ greyscale_image = None
    /\ blurred_image = None
    /\ canny_input = None
    /\ edged_image = None
    /\ string = None
    /\ processed = None
    /\ processed_twice = None

ThrReturn ==
    /\ pc = "find_thresholds: called"
    /\ lower_threshold' = find_thresholds(v, sigma_value)[1]
    /\ upper_threshold' = find_thresholds(v, sigma_value)[2]
    /\ pc' = "find_thresholds: returned"
    /\ UNCHANGED <<args, env, dirs, files, heap, image, top_left, bottom_right,
                   image_cropped, greyscale_image, blurred_image, v, sigma_value,
                   canny_input, edged_image, string, processed, processed_twice>>

NextThr == ThrReturn

SpecThr == InitThr /\ [][NextThr]_vars

(***************************************************************************)
(* SpecText: ocr.replace on every string of at most MaxLen characters, and *)
(* on its own result.                                                      *)
(***************************************************************************)
InitText ==
    /\ pc = "replace: called"
    /\ string \in Strings
    /\ processed = None
    /\ processed_twice = None
    /\ args = None
    /\ env = None
    /\ dirs = {}
    /\ files = <<>>
    /\ heap = <<>>
    /\ image = None
    /\ top_left = None
    /\ bottom_right = None
    /\ image_cropped = None
    /\ greyscale_image = None
    /\ blurred_image = None
    /\ v = None
    /\ sigma_value = None
    /\ lower_threshold = None
    /\ upper_threshold = None
    /\ canny_input = None
    /\ edged_image = None

TextReplace ==
    /\ pc = "replace: called"
    /\ processed' = replace(string)
    /\ pc' = "replace: returned"
    /\ UNCHANGED <<args, env, dirs, files, heap, image, top_left, bottom_right,
                   image_cropped, greyscale_image, blurred_image, v, sigma_value,
                   lower_threshold, upper_threshold, canny_input, edged_image,
                   string, processed_twice>>

TextReplaceAgain ==
    /\ pc = "replace: returned"
    /\ processed_twice' = replace(processed)
    /\ pc' = "replace: returned twice"
    /\ UNCHANGED <<args, env, dirs, files, heap, image, top_left, bottom_right,
                   image_cropped, greyscale_image, blurred_image, v, sigma_value,
                   lower_threshold, upper_threshold, canny_input, edged_image,
                   string, processed>>

NextText == TextReplace \/ TextReplaceAgain

SpecText == InitText /\ [][NextText]_vars

(***************************************************************************)
(* Properties of find_thresholds (SpecThr).  v is twice the median, so     *)
(* lower <= median <= upper reads 2 * lower <= v <= 2 * upper.             *)
(***************************************************************************)
ThrReturned == pc = "find_thresholds: returned"
SigmaInUnit == sigma_value \in 0..SigmaDen
InByteRange(t) == 0 <= t /\ t <= MaxIntensity

\* C1, as stated: for sigma in [0,1] and a median v in [0,255] (possibly a
\* half-integer), lower <= v <= upper, and both thresholds lie in [0,255].
C1_Original ==
    (ThrReturned /\ SigmaInUnit) =>
        /\ 2 * lower_threshold <= v
        /\ v <= 2 * upper_threshold
        /\ InByteRange(lower_threshold)
        /\ InByteRange(upper_threshold)

\* C1, amended: for sigma in [0,1] and a median v in [0,255], lower <= v and
\* floor(v) <= upper (so v <= upper whenever v is an integer), and both
\* thresholds lie in [0,255].
C1_Amended ==
    (ThrReturned /\ SigmaInUnit) =>
        /\ 2 * lower_threshold <= v
        /\ v \div 2 <= upper_threshold
        /\ (v % 2 = 0 => v <= 2 * upper_threshold)
        /\ InByteRange(lower_threshold)
        /\ InByteRange(upper_threshold)

\* a half-integer median whose upper threshold was truncated below it
C1_Witness ==
    /\ ThrReturned
    /\ SigmaInUnit
    /\ v % 2 = 1
    /\ 2 * upper_threshold < v
    /\ 2 * lower_threshold <= v
    /\ lower_threshold > 0

BandWidth(t) == t[2] - t[1]

C7_WellFormed ==
    ThrReturned =>
        /\ 0 <= lower_threshold
        /\ lower_threshold <= upper_threshold
        /\ upper_threshold <= MaxIntensity

(***************************************************************************)
(* Properties of ocr.replace (SpecText).                                   *)
(***************************************************************************)
Contains(s, pat) == \E i \in 1..Len(s) : StartsWithAt(s, i, pat)

\* C2: text cleanup is idempotent: cleaning the cleaned string changes nothing.
C2_Idempotent ==
    pc = "replace: returned twice" => processed_twice = processed

\* C9: the cleaned string holds no newline, none of the artifacts "|", "!",
\* "__", " - ", '-""', no leading or trailing whitespace and no two consecutive
\* whitespace characters.
C9_Stripped ==
    pc \in {"replace: returned", "replace: returned twice"} =>
        /\ ~Contains(processed, <<NL>>)
        /\ ~Contains(processed, <<"|">>)
        /\ ~Contains(processed, <<"!">>)
        /\ ~Contains(processed, <<"_", "_">>)
        /\ ~Contains(processed, <<" ", "-", " ">>)
        /\ ~Contains(processed, <<"-", "\"", "\"">>)
        /\ (processed # <<>> =>
                /\ processed[1] \notin Whitespace
                /\ processed[Len(processed)] \notin Whitespace)
        /\ \A i \in 1..(Len(processed) - 1) :
                ~(processed[i] \in Whitespace /\ processed[i + 1] \in Whitespace)

(***************************************************************************)
(* Properties of a run of main() (Spec).                                   *)
(***************************************************************************)
\* the positions of main() at which draw_ROI, crop_image, find_thresholds and
\* perform_canny_edge_detection have returned
AfterCanny == {"draw_contours", "perform_OCR", "done", "crashed in perform_OCR"}
AfterThresholds == AfterCanny \cup {"perform_canny_edge_detection"}
AfterCrop == AfterThresholds \cup {"greyscale_and_blur", "find_thresholds"}
AfterDrawROI == AfterCrop \cup {"crop_image", "crashed in crop_image"}

CreatedDir == Resolve(Cwd, main_output_dir(args.output_dir))

Written(suffix, dir) == FileKey(dir, OutputName(args.input_image, suffix)) \in DOMAIN files

\* C3: every artifact the run writes lies in the directory main checked for and
\* created before the first stage.
C3_SameDirectory ==
    \A k \in DOMAIN files : k.dir = CreatedDir

\* C5: for a ROI with 0 <= x1 < x2 <= width and 0 <= y1 < y2 <= height,
\* crop_image returns an array of y2-y1 rows and x2-x1 columns whose pixel (r,c)
\* is the loaded image's pixel (y1+r, x1+c).
C5_Crop ==
    LET R  == args.ROI_coordinates
        x1 == top_left[1]
        y1 == top_left[2]
        x2 == bottom_right[1]
        y2 == bottom_right[2]
    IN  ( /\ pc \in AfterDrawROI
          /\ R = <<IntToken(x1), IntToken(y1), IntToken(x2), IntToken(y2)>>
          /\ 0 <= x1 /\ x1 < x2 /\ x2 <= env.data.cols
          /\ 0 <= y1 /\ y1 < y2 /\ y2 <= env.data.rows )
        => /\ pc # "crashed in crop_image"
           /\ pc \in AfterCrop =>
                /\ image_cropped.rows = y2 - y1
                /\ image_cropped.cols = x2 - x1
                /\ \A r \in 0..(y2 - y1 - 1), c \in 0..(x2 - x1 - 1) :
                      ViewPx(heap, image_cropped, r, c) = env.data.px[<<y1 + r, x1 + c>>]

\* a crop that starts inside a non-uniform image and is smaller than it
C5_Witness ==
    /\ pc = "done"
    /\ env.data = GradientImage(0)
    /\ top_left = <<1, 1>>
    /\ bottom_right = <<Width, Height>>
    /\ image_cropped.rows = Height - 1
    /\ image_cropped.cols = Width - 1
    /\ ViewPx(heap, image_cropped, 0, 0) = <<11, 20, 0>>

HasOCRText == \E k \in DOMAIN files : k.name = OutputName(args.input_image, "_OCR_text.txt")

\* C6: the OCR step runs if and only if the flag is exactly "True": a finished
\* run has written the text file exactly then, and with any other flag
\* perform_OCR writes no text file and raises nothing.
C6_ExactFlag ==
    /\ pc = "done" => (HasOCRText <=> args.OCR = "True")
    /\ args.OCR # "True" => (~HasOCRText /\ pc # "crashed in perform_OCR")

\* a run that finished without OCR although the flag reads "true"
C6_Witness ==
    /\ pc = "done"
    /\ args.OCR = "true"
    /\ ~HasOCRText
    /\ Written("_letters.jpg", Resolve(Cwd, image_output_dir(args.output_dir)))

\* C8: no stage draws on an array it was given: once loaded, `image` stays the
\* data file's pixels, and the crop stays the part of them it was sliced from,
\* through draw_ROI and draw_contours.
C8_NoDrawingInPlace ==
    /\ pc \in AfterDrawROI => Content(heap, image) = env.data
    /\ pc \in AfterCrop =>
          \A p \in Positions(image_cropped.rows, image_cropped.cols) :
              ViewPx(heap, image_cropped, p[1], p[2])
                  = env.data.px[<<image_cropped.r0 + p[1], image_cropped.c0 + p[2]>>]

\* a finished run whose saved copies carry the rectangle and the contours
C8_Witness ==
    /\ pc = "done"
    /\ LET dir == Resolve(Cwd, image_output_dir(args.output_dir))
       IN  /\ Written("_with_ROI.jpg", dir)
           /\ Written("_letters.jpg", dir)
           /\ files[FileKey(dir, OutputName(args.input_image, "_with_ROI.jpg"))] # env.data
           /\ files[FileKey(dir, OutputName(args.input_image, "_letters.jpg"))]
                 # Content(heap, image_cropped)
           /\ files[FileKey(dir, OutputName(args.input_image, "_cropped.jpg"))]
                 = Content(heap, image_cropped)

DataHeap == (1 :> env.data)

====
